---- MODULE Spec2Model ----
(***************************************************************************)
(* Model of pyout/elements.py: the style schema, default(), adopt() and    *)
(* validate().                                                             *)
(*                                                                         *)
(* A Python value is a record with the same six fields whatever its type,  *)
(* so that two values of different types can be compared:                  *)
(*   kind  "null" | "bool" | "int" | "str" | "list" | "map"                *)
(*   b, n, s  the payload of a bool, an int, a str                         *)
(*   l     the items of a list (a sequence of values)                      *)
(*   m     the items of a dict (a function from string keys to values)     *)
(***************************************************************************)
EXTENDS Integers, Sequences, FiniteSets, TLC

VARIABLES
    active,      \* Spec: the active style document (the base of the next adopt)
    calls,       \* Spec: number of adopt calls made so far
    jsonschema,  \* whether "import jsonschema" succeeds in this runtime
    last,        \* Spec: the most recent call, its arguments and its outcome
    shared,      \* SpecShared: the one base document both callers pass as style
    pc,          \* SpecShared: per caller, its position in adopt
    new_style,   \* SpecShared: per caller, the object passed as new_style
    todo,        \* SpecShared: per caller, keys of style.items() not yet visited
    combined,    \* SpecShared: per caller, the local dict adopt builds
    ret,         \* SpecShared: per caller, the value adopt returned
    entry        \* SpecShared: per caller, the arguments as they were at the call

vars == <<active, calls, jsonschema, last, shared, pc, new_style, todo,
          combined, ret, entry>>

----------------------------------------------------------------------------
(* Values *)

EmptyItems == <<>>

PyNone == [kind |-> "null", b |-> FALSE, n |-> 0, s |-> "", l |-> <<>>, m |-> <<>>]

PyBool(x) == [kind |-> "bool", b |-> x, n |-> 0, s |-> "", l |-> <<>>, m |-> <<>>]

PyInt(x) == [kind |-> "int", b |-> FALSE, n |-> x, s |-> "", l |-> <<>>, m |-> <<>>]

PyStr(x) == [kind |-> "str", b |-> FALSE, n |-> 0, s |-> x, l |-> <<>>, m |-> <<>>]

PyList(x) == [kind |-> "list", b |-> FALSE, n |-> 0, s |-> "", l |-> x, m |-> <<>>]

PyDict(f) == [kind |-> "map", b |-> FALSE, n |-> 0, s |-> "", l |-> <<>>, m |-> f]

\* isinstance(value, Mapping)
IsMapping(v) == v.kind = "map"

\* d.get(key, dflt) on a dict d
Get(d, key, dflt) == IF key \in DOMAIN d.m THEN d.m[key] ELSE dflt

\* A merge that goes one level further down: inner dicts are merged key by
\* key and inner lists are concatenated instead of being replaced
DictUpdateDeep(value, extra) ==
    PyDict([k \in (DOMAIN value.m) \cup (DOMAIN extra.m) |->
            IF k \notin DOMAIN extra.m THEN value.m[k]
            ELSE IF k \notin DOMAIN value.m THEN extra.m[k]
            ELSE IF value.m[k].kind = "map" /\ extra.m[k].kind = "map"
                 THEN PyDict(extra.m[k].m @@ value.m[k].m)
            ELSE IF value.m[k].kind = "list" /\ extra.m[k].kind = "list"
                 THEN PyList(value.m[k].l \o extra.m[k].l)
            ELSE extra.m[k]])

\* A merge that only refines the keys value already has
DictUpdateKnown(value, extra) ==
    PyDict([k \in DOMAIN value.m |->
            IF k \in DOMAIN extra.m THEN extra.m[k] ELSE value.m[k]])

\* dict(value, **extra): a new dict with value's items, then extra's on top
DictUpdate(value, extra) ==
    PyDict([k \in (DOMAIN value.m) \cup (DOMAIN extra.m) |->
            IF k \in DOMAIN extra.m THEN extra.m[k] ELSE value.m[k]])

\* combined[key] = item on the local dict
SetItem(d, key, item) ==
    PyDict([k \in (DOMAIN d.m) \cup {key} |-> IF k = key THEN item ELSE d.m[k]])

----------------------------------------------------------------------------
(* adopt(style, new_style), elements.py lines 171-181 *)

\* Outcome of a call: exc is "none" when it returned, else the exception raised
Returned(v) == [exc |-> "none", value |-> v]

Raised(e) == [exc |-> e, value |-> PyNone]

\* dict(value, **x) raises TypeError unless x is a mapping (line 178): a str,
\* a list, a number or None cannot be unpacked.  Keys are strings throughout.
KeyRaises(value, ns, key) ==
    IsMapping(value) /\ ~IsMapping(Get(ns, key, PyDict(EmptyItems)))

\* The non-mapping branch written as "new_style.get(key) or value": an
\* override that is None (or otherwise falsy) is not taken
CombineKeyOr(value, ns, key) ==
    IF IsMapping(value)
    THEN DictUpdate(value, Get(ns, key, PyDict(EmptyItems)))
    ELSE IF Get(ns, key, PyNone).kind = "null" THEN value ELSE Get(ns, key, value)

\* The value the loop body stores under key (lines 177-180)
CombineKey(value, ns, key) ==
    IF IsMapping(value)
    THEN DictUpdate(value, Get(ns, key, PyDict(EmptyItems)))
    ELSE Get(ns, key, value)

\* The loop body merging into the base's own nested dict
\* (value.update(...); combined[key] = value)
LoopBodyInPlace(st, ns, comb, key) ==
    [style |-> SetItem(st, key, CombineKey(st.m[key], ns, key)),
     new_style |-> ns,
     combined |-> SetItem(comb, key, CombineKey(st.m[key], ns, key))]

\* One iteration of the loop: its whole effect on the three objects in reach
LoopBody(st, ns, comb, key) ==
    [style |-> st,
     new_style |-> ns,
     combined |-> SetItem(comb, key, CombineKey(st.m[key], ns, key))]

\* The for loop, lines 176-180, and the return of line 181.  Each key is
\* visited once and writes only its own entry, so the order of style.items()
\* does not change the outcome; the first key that raises ends the call.
RECURSIVE Loop(_, _, _, _)
Loop(st, ns, comb, keys) ==
    IF keys = {}
    THEN [style |-> st, new_style |-> ns, out |-> Returned(comb)]
    ELSE LET key == CHOOSE k \in keys : TRUE
         IN IF KeyRaises(st.m[key], ns, key)
            THEN [style |-> st, new_style |-> ns, out |-> Raised("TypeError")]
            ELSE LET e == LoopBody(st, ns, comb, key)
                 IN Loop(e.style, e.new_style, e.combined, keys \ {key})

\* The local dict started as a copy of new_style instead of empty
AdoptCallSeeded(st, ns) ==
    IF ns.kind = "null"
    THEN [style |-> st, new_style |-> ns, out |-> Returned(st)]
    ELSE Loop(st, ns, ns, DOMAIN st.m)

\* The call as a whole: the outcome, and the two argument objects afterwards
AdoptCall(st, ns) ==
    IF ns.kind = "null"
    THEN [style |-> st, new_style |-> ns, out |-> Returned(st)]
    ELSE Loop(st, ns, PyDict(EmptyItems), DOMAIN st.m)

adopt(st, ns) == AdoptCall(st, ns).out

----------------------------------------------------------------------------
(* The schema, elements.py lines 8-157, as jsonschema reads it.  A keyword  *)
(* applies only to instances of the type it is about; oneOf holds when      *)
(* exactly one branch does.                                                 *)

\* "type": t, for the JSON types (a bool is never an integer or a number)
IsType(v, t) ==
    CASE t = "string" -> v.kind = "str"
      [] t = "boolean" -> v.kind = "bool"
      [] t = "integer" -> v.kind = "int"
      [] t = "number" -> v.kind = "int"
      [] t = "null" -> v.kind = "null"
      [] t = "object" -> v.kind = "map"
      [] t = "array" -> v.kind = "list"
      [] OTHER -> FALSE

IsAnyType(v, ts) == \E t \in ts : IsType(v, t)

\* "oneOf": exactly one of the branches (given as booleans, in order) holds
ExactlyOne(branches) ==
    Cardinality({i \in DOMAIN branches : branches[i]}) = 1

\* "properties" with "additionalProperties": False, on an object
OnlyKeys(v, keys) == v.kind = "map" => DOMAIN v.m \subseteq keys

\* "properties": {key: ...} constrains the item under key only when the
\* instance is an object that has the key
Present(v, key) == v.kind = "map" /\ key \in DOMAIN v.m

\* definitions/lookup, lines 108-112
lookup(v) ==
    /\ IsType(v, "object")
    /\ Present(v, "lookup") => IsType(v.m["lookup"], "object")
    /\ OnlyKeys(v, {"lookup"})

\* One [low, high, style] triple, lines 102-106: positional items, no more
triple(v) ==
    /\ IsType(v, "array")
    /\ Len(v.l) >= 1 => IsAnyType(v.l[1], {"number", "null"})
    /\ Len(v.l) >= 2 => IsAnyType(v.l[2], {"number", "null"})
    /\ Len(v.l) >= 3 => IsAnyType(v.l[3], {"string", "boolean"})
    /\ Len(v.l) <= 3

\* The "interval" property, lines 99-106: "items" is a one-element list of
\* schemas, so only the first item of the array is checked against it
intervalItems(v) ==
    /\ IsType(v, "array")
    /\ Len(v.l) >= 1 => triple(v.l[1])

\* definitions/interval, lines 96-107
interval(v) ==
    /\ IsType(v, "object")
    /\ Present(v, "interval") => intervalItems(v.m["interval"])
    /\ OnlyKeys(v, {"interval"})

\* definitions/align, lines 11-16
align(v) == IsType(v, "string") /\ v.s \in {"left", "right", "center"}

\* definitions/bold, lines 17-23
bold(v) == ExactlyOne(<<IsType(v, "boolean"), lookup(v), interval(v)>>)

Colors == {"black", "red", "green", "yellow", "blue", "magenta", "cyan", "white"}

\* definitions/color, lines 24-32
color(v) ==
    ExactlyOne(<<IsType(v, "string") /\ v.s \in Colors, lookup(v), interval(v)>>)

\* definitions/underline, lines 33-39
underline(v) == ExactlyOne(<<IsType(v, "boolean"), lookup(v), interval(v)>>)

\* The object form of width, lines 45-51
widthObject(v) ==
    /\ IsType(v, "object")
    /\ Present(v, "max") => IsAnyType(v.m["max"], {"integer", "null"})
    /\ Present(v, "min") => IsAnyType(v.m["min"], {"integer", "null"})
    /\ Present(v, "width") => IsType(v.m["width"], "integer")
    /\ Present(v, "marker") => IsAnyType(v.m["marker"], {"string", "boolean"})
    /\ OnlyKeys(v, {"max", "min", "width", "marker"})

\* definitions/width, lines 40-53
width(v) ==
    ExactlyOne(<<IsType(v, "integer"),
                 IsType(v, "string") /\ v.s = "auto",
                 widthObject(v)>>)

\* definitions/aggregate, lines 55-59: no constraint
aggregate(v) == TRUE

\* definitions/delayed, lines 60-68
delayed(v) == IsAnyType(v, {"boolean", "string"})

\* definitions/missing, lines 69-74
missing(v) == IsType(v, "string")

\* definitions/transform, lines 75-81: no constraint
transform(v) == TRUE

\* The nine style elements, lines 85-93
StyleElements ==
    {"aggregate", "align", "bold", "color", "delayed", "missing", "transform",
     "underline", "width"}

\* styles without "additionalProperties": False
stylesOpen(v) ==
    /\ IsType(v, "object")
    /\ Present(v, "aggregate") => aggregate(v.m["aggregate"])
    /\ Present(v, "align") => align(v.m["align"])
    /\ Present(v, "bold") => bold(v.m["bold"])
    /\ Present(v, "color") => color(v.m["color"])
    /\ Present(v, "delayed") => delayed(v.m["delayed"])
    /\ Present(v, "missing") => missing(v.m["missing"])
    /\ Present(v, "transform") => transform(v.m["transform"])
    /\ Present(v, "underline") => underline(v.m["underline"])
    /\ Present(v, "width") => width(v.m["width"])

\* definitions/styles, lines 83-94
styles(v) ==
    /\ IsType(v, "object")
    /\ Present(v, "aggregate") => aggregate(v.m["aggregate"])
    /\ Present(v, "align") => align(v.m["align"])
    /\ Present(v, "bold") => bold(v.m["bold"])
    /\ Present(v, "color") => color(v.m["color"])
    /\ Present(v, "delayed") => delayed(v.m["delayed"])
    /\ Present(v, "missing") => missing(v.m["missing"])
    /\ Present(v, "transform") => transform(v.m["transform"])
    /\ Present(v, "underline") => underline(v.m["underline"])
    /\ Present(v, "width") => width(v.m["width"])
    /\ OnlyKeys(v, StyleElements)

\* The object branch of aggregate_ and header_, lines 118-122 and 135-139
rowAttributes(v) ==
    /\ IsType(v, "object")
    /\ Present(v, "color") => color(v.m["color"])
    /\ Present(v, "bold") => bold(v.m["bold"])
    /\ Present(v, "underline") => underline(v.m["underline"])

\* properties/aggregate_, lines 116-125
aggregate_(v) == ExactlyOne(<<rowAttributes(v), IsType(v, "null")>>)

\* properties/default_, lines 126-132
default_(v) == ExactlyOne(<<styles(v), IsType(v, "null")>>)

\* properties/header_, lines 133-142
header_(v) == ExactlyOne(<<rowAttributes(v), IsType(v, "null")>>)

\* properties/separator_, lines 143-147
separator_(v) == IsType(v, "string")

\* properties/width_, lines 148-153
width_(v) == IsType(v, "integer")

\* The keys of schema["properties"], lines 115-154
TableProperties == {"aggregate_", "default_", "header_", "separator_", "width_"}

\* The whole schema, lines 114-156: every other key is a column name
schema(v) ==
    /\ IsType(v, "object")
    /\ Present(v, "aggregate_") => aggregate_(v.m["aggregate_"])
    /\ Present(v, "default_") => default_(v.m["default_"])
    /\ Present(v, "header_") => header_(v.m["header_"])
    /\ Present(v, "separator_") => separator_(v.m["separator_"])
    /\ Present(v, "width_") => width_(v.m["width_"])
    /\ v.kind = "map" =>
           \A key \in DOMAIN v.m \ TableProperties : styles(v.m[key])

----------------------------------------------------------------------------
(* default(prop), elements.py lines 160-168 *)

\* schema["properties"][prop]["default"], lines 124, 130, 141, 146, 151
PropertyDefault(prop) ==
    CASE prop = "aggregate_" -> PyDict(EmptyItems)
      [] prop = "default_" ->
             PyDict(("align" :> PyStr("left")) @@ ("width" :> PyStr("auto")))
      [] prop = "header_" -> PyNone
      [] prop = "separator_" -> PyStr(" ")
      [] prop = "width_" -> PyInt(90)

\* schema["definitions"][prop]["default"], lines 15, 22, 31, 38, 52, 72
ElementDefault(prop) ==
    CASE prop = "align" -> PyStr("left")
      [] prop = "bold" -> PyBool(FALSE)
      [] prop = "color" -> PyStr("black")
      [] prop = "underline" -> PyBool(FALSE)
      [] prop = "width" -> PyStr("auto")
      [] prop = "missing" -> PyStr("")

\* A lookup that falls back to the style elements' defaults
defaultWithFallback(prop) ==
    IF prop \in TableProperties
    THEN Returned(PropertyDefault(prop))
    ELSE IF prop \in {"align", "bold", "color", "underline", "width", "missing"}
         THEN Returned(ElementDefault(prop))
         ELSE Raised("KeyError")

default(prop) ==
    IF prop \in TableProperties
    THEN Returned(PropertyDefault(prop))
    ELSE Raised("KeyError")

----------------------------------------------------------------------------
(* validate(style), elements.py lines 200-224 *)

\* validate() with the import outside the try: ImportError reaches the caller
validateNoFallback(capability, style) ==
    IF ~capability
    THEN Raised("ImportError")
    ELSE IF schema(style)
         THEN Returned(PyNone)
         ELSE Raised("StyleValidationError")

validate(capability, style) ==
    IF ~capability
    THEN Returned(PyNone)
    ELSE IF schema(style)
         THEN Returned(PyNone)
         ELSE Raised("StyleValidationError")

----------------------------------------------------------------------------
(* The documents the callers pass in *)

MaxCalls == 2

LookupA == PyDict("lookup" :> PyDict("ok" :> PyStr("green")))

IntervalA ==
    PyDict("interval" :> PyList(<<PyList(<<PyInt(0), PyInt(10), PyStr("red")>>)>>))

IntervalB ==
    PyDict("interval" :> PyList(<<PyList(<<PyNone, PyInt(0), PyStr("blue")>>)>>))

ColumnStyle == PyDict(("align" :> PyStr("left")) @@ ("width" :> PyStr("auto")))

UnknownKey == PyDict("foo" :> PyInt(1))

TopKeys == {"color", "default_"}

TopValues ==
    {PyStr("black"), PyStr("red"), PyNone, PyList(<<PyStr("red")>>),
     LookupA, IntervalA, IntervalB, ColumnStyle}

\* Every dict with the given keys or fewer and values among the given ones
DictsOver(keys, values) ==
    UNION {{PyDict(f) : f \in [ks -> values]} : ks \in SUBSET keys}

Documents == DictsOver(TopKeys, TopValues)

\* Table-level documents that use the other reserved keys and a column name
TableDocuments ==
    {PyDict(("width_" :> PyInt(90)) @@ ("separator_" :> PyStr(" "))),
     PyDict(("width_" :> PyStr("wide")) @@ ("header_" :> PyNone)),
     PyDict(("header_" :> PyDict("bold" :> PyBool(TRUE)))
            @@ ("aggregate_" :> PyDict(EmptyItems))),
     PyDict(("col" :> PyDict("width" :> PyDict("min" :> PyInt(0))))
            @@ ("default_" :> PyNone)),
     PyDict("col" :> PyDict(("align" :> PyStr("left")) @@ ("foo" :> PyInt(1)))),
     PyDict("col" :> PyDict("width" :> PyStr("bogus")))}

\* The documents validate() is given
ValidatedDocuments ==
    DictsOver(TopKeys, TopValues \cup {UnknownKey}) \cup TableDocuments

\* Names default() is asked about: table keys, style elements, and others
PropertyNames == TableProperties \cup StyleElements \cup {"col", "styles"}

----------------------------------------------------------------------------
(* State *)

NoCall ==
    [op |-> "none", style |-> PyNone, arg |-> PyNone, prop |-> "",
     styleAfter |-> PyNone, argAfter |-> PyNone, out |-> Returned(PyNone)]

Callers == {1, 2}

Idle ==
    /\ pc = [c \in Callers |-> "idle"]
    /\ new_style = [c \in Callers |-> PyNone]
    /\ todo = [c \in Callers |-> {}]
    /\ combined = [c \in Callers |-> PyDict(EmptyItems)]
    /\ ret = [c \in Callers |-> PyNone]
    /\ entry = [c \in Callers |-> [style |-> PyNone, new_style |-> PyNone]]

sharedVars == <<shared, pc, new_style, todo, combined, ret, entry>>

----------------------------------------------------------------------------
(* Spec: one caller layering overrides onto the active style *)

Init ==
    /\ active \in Documents
    /\ calls = 0
    /\ jsonschema = TRUE
    /\ last = NoCall
    /\ shared = PyDict(EmptyItems)
    /\ Idle

\* The caller layers override O onto the active style: adopt(active, O) as
\* a whole; a returned document becomes the active style, an exception
\* leaves the active style as it was
Layer(O) ==
    /\ calls < MaxCalls
    /\ LET r == AdoptCall(active, O)
       IN /\ last' = [op |-> "adopt", style |-> active, arg |-> O, prop |-> "",
                      styleAfter |-> r.style, argAfter |-> r.new_style,
                      out |-> r.out]
          /\ active' = IF r.out.exc = "none" THEN r.out.value ELSE active
    /\ calls' = calls + 1
    /\ UNCHANGED <<jsonschema, sharedVars>>

Next == \E O \in Documents \cup {PyNone} : Layer(O)

Spec == Init /\ [][Next]_vars

----------------------------------------------------------------------------
(* SpecSchema: calls of validate() and default() *)

InitSchema ==
    /\ active = PyDict(EmptyItems)
    /\ calls = 0
    /\ jsonschema \in BOOLEAN
    /\ last = NoCall
    /\ shared = PyDict(EmptyItems)
    /\ Idle

\* validate(D)
Validate(D) ==
    /\ last' = [op |-> "validate", style |-> D, arg |-> PyNone, prop |-> "",
                styleAfter |-> D, argAfter |-> PyNone,
                out |-> validate(jsonschema, D)]
    /\ UNCHANGED <<active, calls, jsonschema, sharedVars>>

\* default(prop)
Default(prop) ==
    /\ last' = [op |-> "default", style |-> PyNone, arg |-> PyNone, prop |-> prop,
                styleAfter |-> PyNone, argAfter |-> PyNone, out |-> default(prop)]
    /\ UNCHANGED <<active, calls, jsonschema, sharedVars>>

NextSchema ==
    \/ \E D \in ValidatedDocuments : Validate(D)
    \/ \E prop \in PropertyNames : Default(prop)

SpecSchema == InitSchema /\ [][NextSchema]_vars

----------------------------------------------------------------------------
(* SpecShared: two callers inside adopt() on the same base document, their  *)
(* loop iterations interleaved                                              *)

SharedBases == DictsOver(TopKeys, {PyStr("black"), IntervalA})

SharedOverrides ==
    DictsOver(TopKeys, {PyStr("red"), IntervalB}) \cup {PyNone}

InitShared ==
    /\ active = PyDict(EmptyItems)
    /\ calls = 0
    /\ jsonschema = TRUE
    /\ last = NoCall
    /\ shared \in SharedBases
    /\ Idle

\* Lines 171-175: the call, the None short-circuit, the empty local dict
Call(c, O) ==
    /\ pc[c] = "idle"
    /\ new_style' = [new_style EXCEPT ![c] = O]
    /\ entry' = [entry EXCEPT ![c] = [style |-> shared, new_style |-> O]]
    /\ IF O.kind = "null"
       THEN /\ pc' = [pc EXCEPT ![c] = "returned"]
            /\ ret' = [ret EXCEPT ![c] = shared]
            /\ UNCHANGED <<todo, combined>>
       ELSE /\ pc' = [pc EXCEPT ![c] = "loop"]
            /\ todo' = [todo EXCEPT ![c] = DOMAIN shared.m]
            /\ combined' = [combined EXCEPT ![c] = PyDict(EmptyItems)]
            /\ UNCHANGED ret
    /\ UNCHANGED <<active, calls, jsonschema, last, shared>>

\* Lines 176-180: one iteration, for some key not yet visited
Step(c) ==
    /\ pc[c] = "loop"
    /\ \E key \in todo[c] :
          IF KeyRaises(shared.m[key], new_style[c], key)
          THEN /\ pc' = [pc EXCEPT ![c] = "raised"]
               /\ UNCHANGED <<shared, new_style, todo, combined>>
          ELSE LET e == LoopBody(shared, new_style[c], combined[c], key)
               IN /\ shared' = e.style
                  /\ new_style' = [new_style EXCEPT ![c] = e.new_style]
                  /\ combined' = [combined EXCEPT ![c] = e.combined]
                  /\ todo' = [todo EXCEPT ![c] = @ \ {key}]
                  /\ UNCHANGED pc
    /\ UNCHANGED <<active, calls, jsonschema, last, ret, entry>>

\* Line 181: return combined
Return(c) ==
    /\ pc[c] = "loop"
    /\ todo[c] = {}
    /\ pc' = [pc EXCEPT ![c] = "returned"]
    /\ ret' = [ret EXCEPT ![c] = combined[c]]
    /\ UNCHANGED <<active, calls, jsonschema, last, shared, new_style, todo,
                   combined, entry>>

NextShared ==
    \E c \in Callers :
        \/ \E O \in SharedOverrides : Call(c, O)
        \/ Step(c)
        \/ Return(c)

SpecShared == InitShared /\ [][NextShared]_vars

----------------------------------------------------------------------------
(* Properties *)

\* The most recent call was an adopt() that returned
AdoptReturned == last.op = "adopt" /\ last.out.exc = "none"

\* C1: when adopt(S, O) with O not None returns, every top-level key k of S
\* whose value is not a mapping holds O[k] verbatim if k is a key of O, and
\* S[k] otherwise.
C1_OverridePrecedence ==
    (AdoptReturned /\ last.arg.kind # "null") =>
        \A k \in DOMAIN last.style.m :
            ~IsMapping(last.style.m[k]) =>
                /\ k \in DOMAIN last.out.value.m
                /\ last.out.value.m[k] =
                       IF k \in DOMAIN last.arg.m
                       THEN last.arg.m[k]
                       ELSE last.style.m[k]

\* C1 witness: "black" overridden by "red", and a None override taken verbatim
C1_Witness ==
    /\ AdoptReturned
    /\ last.style = PyDict(("color" :> PyStr("black")) @@ ("default_" :> PyStr("red")))
    /\ last.arg = PyDict(("color" :> PyStr("red")) @@ ("default_" :> PyNone))
    /\ last.out.value = last.arg

\* C2: when adopt(S, O) returns, for every top-level key k of S whose value is
\* a mapping and whose override is a mapping or absent, every inner key j of
\* S[k] holds O[k][j] whole if j is a key of O[k], and S[k][j] otherwise;
\* nothing below that level is merged.
C2_OneLevelMerge ==
    AdoptReturned =>
        \A k \in DOMAIN last.style.m :
            (/\ IsMapping(last.style.m[k])
             /\ k \in DOMAIN last.arg.m => IsMapping(last.arg.m[k])) =>
                \A j \in DOMAIN last.style.m[k].m :
                    /\ k \in DOMAIN last.out.value.m
                    /\ j \in DOMAIN last.out.value.m[k].m
                    /\ last.out.value.m[k].m[j] =
                           IF k \in DOMAIN last.arg.m /\ j \in DOMAIN last.arg.m[k].m
                           THEN last.arg.m[k].m[j]
                           ELSE last.style.m[k].m[j]

\* C2 witness: one Interval overridden by another; the triple list is replaced
C2_Witness ==
    /\ AdoptReturned
    /\ "color" \in DOMAIN last.style.m
    /\ last.style.m["color"] = IntervalA
    /\ last.arg.kind = "map"
    /\ "color" \in DOMAIN last.arg.m
    /\ last.arg.m["color"] = IntervalB
    /\ last.out.value.m["color"] = IntervalB

\* C3: whenever adopt(S, O) returns, the result has exactly the top-level keys
\* of S, and so the active style keeps its top-level key set over any
\* sequence of adopt calls.
C3_NoNewTopLevelKeys ==
    [][/\ DOMAIN active'.m = DOMAIN active.m
       /\ (last'.op = "adopt" /\ last'.out.exc = "none") =>
              (/\ last'.style = active
               /\ active' = last'.out.value
               /\ DOMAIN last'.out.value.m = DOMAIN last'.style.m)]_vars

\* C3 witness: the second call of a sequence, whose override has a key the
\* base lacks; the key is dropped
C3_Witness ==
    /\ AdoptReturned
    /\ calls = 2
    /\ last.arg.kind = "map"
    /\ "default_" \in DOMAIN last.arg.m
    /\ DOMAIN last.style.m = {"color"}
    /\ DOMAIN active.m = {"color"}

\* C4: applying the override that was just applied once more to the result
\* gives the same document again.
C4_IdempotentRemerge ==
    AdoptReturned => adopt(last.out.value, last.arg) = last.out

\* C4 witness: the override replaced a non-mapping by a mapping, so that the
\* second application merges where the first one replaced
C4_Witness ==
    /\ AdoptReturned
    /\ last.arg.kind = "map"
    /\ \E k \in DOMAIN last.style.m \cap DOMAIN last.arg.m :
           /\ ~IsMapping(last.style.m[k])
           /\ IsMapping(last.arg.m[k])
           /\ IsMapping(last.out.value.m[k])

\* C5 (as claimed): adopt returns a merged document whatever the shapes of
\* the values of S and O; it never raises.
C5_NeverRaises == last.op = "adopt" => last.out.exc = "none"

\* C6: while a caller is inside adopt and after it has left, the base
\* document and its override have the content they had at the call; and each
\* of two callers sharing a base gets the outcome it gets alone.
C6_InputsUntouched ==
    \A c \in Callers :
        pc[c] # "idle" =>
            /\ shared = entry[c].style
            /\ new_style[c] = entry[c].new_style
            /\ pc[c] = "returned" =>
                   Returned(ret[c]) = adopt(entry[c].style, entry[c].new_style)
            /\ pc[c] = "raised" =>
                   adopt(entry[c].style, entry[c].new_style).exc = "TypeError"

\* C6 witness: both callers returned from overlapping calls that merged a
\* nested mapping of the same base
C6_Witness ==
    /\ pc = [c \in Callers |-> "returned"]
    /\ "color" \in DOMAIN shared.m
    /\ shared.m["color"] = IntervalA
    /\ new_style[1] = PyDict("color" :> IntervalB)
    /\ new_style[2] = PyDict(EmptyItems)
    /\ ret[1] # ret[2]
    /\ ret[2] = shared

\* Some column style of document D (the value of default_ or of a key that
\* is not a table property) has a key that is not a style element
HasUnknownStyleKey(D) ==
    \E k \in DOMAIN D.m :
        /\ k = "default_" \/ k \notin TableProperties
        /\ IsMapping(D.m[k])
        /\ ~(DOMAIN D.m[k].m \subseteq StyleElements)

\* C7: with jsonschema present, validate raises StyleValidationError for
\* every document one of whose column styles has a key outside the nine
\* style elements.
C7_UnknownKeyRejected ==
    (last.op = "validate" /\ jsonschema /\ HasUnknownStyleKey(last.style)) =>
        last.out.exc = "StyleValidationError"

\* C7 witness: {"col": {"align": "left", "foo": 1}} is rejected
C7_Witness ==
    /\ last.op = "validate"
    /\ jsonschema
    /\ last.style = PyDict("col" :> PyDict(("align" :> PyStr("left"))
                                            @@ ("foo" :> PyInt(1))))
    /\ last.out.exc = "StyleValidationError"

\* C8: with jsonschema absent, validate returns None for every document and
\* raises nothing.
C8_NoCapabilityNoError ==
    (last.op = "validate" /\ ~jsonschema) => last.out = Returned(PyNone)

\* C8 witness: a document the schema rejects, validated without jsonschema
C8_Witness ==
    /\ last.op = "validate"
    /\ ~jsonschema
    /\ ~schema(last.style)
    /\ HasUnknownStyleKey(last.style)
    /\ last.out.exc = "none"

\* C9: default returns the declared literal for each of the five table-level
\* keys and fails for every other name, style element names included.
C9_DefaultOnTableKeysOnly ==
    last.op = "default" =>
        /\ last.prop = "width_" => last.out = Returned(PyInt(90))
        /\ last.prop = "separator_" => last.out = Returned(PyStr(" "))
        /\ last.prop = "default_" =>
               last.out = Returned(PyDict(("align" :> PyStr("left"))
                                          @@ ("width" :> PyStr("auto"))))
        /\ last.prop = "header_" => last.out = Returned(PyNone)
        /\ last.prop = "aggregate_" => last.out = Returned(PyDict(EmptyItems))
        /\ last.prop \notin {"width_", "separator_", "default_", "header_",
                             "aggregate_"} => last.out.exc # "none"

\* C9 witness: default("align") failed
C9_Witness ==
    /\ last.op = "default"
    /\ last.prop = "align"
    /\ last.out.exc = "KeyError"

\* C10: when adopt(S, O) returns, for every top-level key k of S where S[k]
\* and O[k] are both mappings, the keys of the result's k are the keys of
\* S[k] together with the keys of O[k].
C10_InnerKeysUnion ==
    (AdoptReturned /\ last.arg.kind = "map") =>
        \A k \in DOMAIN last.style.m \cap DOMAIN last.arg.m :
            (IsMapping(last.style.m[k]) /\ IsMapping(last.arg.m[k])) =>
                /\ k \in DOMAIN last.out.value.m
                /\ IsMapping(last.out.value.m[k])
                /\ DOMAIN last.out.value.m[k].m =
                       DOMAIN last.style.m[k].m \cup DOMAIN last.arg.m[k].m

\* C10 witness: a Lookup overridden by an Interval gives a value with both
\* keys; base and override are valid column styles and the result is not
C10_Witness ==
    /\ AdoptReturned
    /\ last.style = PyDict("color" :> LookupA)
    /\ last.arg = PyDict("color" :> IntervalA)
    /\ DOMAIN last.out.value.m["color"].m = {"lookup", "interval"}
    /\ styles(last.style)
    /\ styles(last.arg)
    /\ ~styles(last.out.value)

====
